---- MODULE Spec2Model ----
(***************************************************************************)
(* The in-memory session store of bikestat (backend/services/session.py)   *)
(* and the application lifespan that starts its reaper (main.py).          *)
(*                                                                         *)
(* Scheduling.  The application is one asyncio event loop.  A coroutine    *)
(* gives up the loop only at an await.  Every method of SessionManager is  *)
(* a plain def without an await, and the only await of the reaper is the   *)
(* asyncio.sleep of line 34.  The model keeps this: `frame` is the call    *)
(* that holds the loop; its statements are separate steps, and a new call  *)
(* or a reaper wake-up begins only when the loop is free (frame = Idle).   *)
(*                                                                         *)
(* Time.  datetime.now() is the variable `now`, advanced by Tick.  The     *)
(* unit of time is coarser than the reaper's 300 s sleep, so a sleeping    *)
(* reaper may wake at any instant.                                         *)
(*                                                                         *)
(* Tokens.  secrets.token_urlsafe(32) returns a token never returned       *)
(* before; tokens are opaque, so the model names them 1, 2, ... in the     *)
(* order create_session issues them.  That is also the insertion order of  *)
(* both dicts.                                                             *)
(***************************************************************************)
EXTENDS Integers, Sequences, FiniteSets, TLC

\* ---------------------------------------------------------------- bounds
MaxTime == 4     \* the clock stops at this instant
Timeout == 2     \* timedelta(minutes=timeout_minutes), in units of the clock

\* one token to act on and one other to show what an operation leaves alone
Tokens == {1, 2}
Keys == {"email", "activities"}
Vals == {"a", "b"}

\* dict[str, Any]: the functions from a subset of Keys to Vals
Bags == UNION {[D -> Vals] : D \in SUBSET Keys}
EmptyBag == [k \in {} |-> "a"]

VARIABLES
    sessions,        \* self.sessions: token -> bag
    last_activity,   \* self.last_activity: token -> time
    cleanup_task,    \* self._cleanup_task: "None" or "Task"
    reaper,          \* where the reaper coroutine is: "none", "sleep", "run"
    app,             \* lifespan: "created", "serving", "shutdown"
    now,             \* datetime.now()
    frame,           \* the synchronous call that holds the event loop
    issued,          \* history: tokens create_session has returned
    deleted,         \* history: tokens delete_session has removed
    untouched,       \* history: tokens created and not yet used in a call
    handlers,        \* the request handlers: the one on the loop, those suspended
                     \* at an await; history: the tokens of the logouts and of
                     \* the failed logins that were answered
    activities,      \* aggregation engine: the list of Activity records given to it
    request,         \* aggregation engine: the function called and its arguments
    output           \* aggregation engine: what the call returned

\* the session store and the aggregation engine share nothing (the engine's
\* functions are static methods without state)
store_vars == <<sessions, last_activity, cleanup_task, reaper, app, now, frame, issued,
                deleted, untouched, handlers>>
engine == <<activities, request, output>>
vars == <<store_vars, engine>>

\* ------------------------------------------------------- dict operations
Has(d, k) == k \in DOMAIN d
Put(d, k, v) == [x \in DOMAIN d \cup {k} |-> IF x = k THEN v ELSE d[x]]
Del(d, k) == [x \in DOMAIN d \ {k} |-> d[x]]
\* assignment in place of update: the old keys are lost
DictUpdate_replace(bag, data) == data

\* dict.update(data)
DictUpdate(bag, data) ==
    [k \in DOMAIN bag \cup DOMAIN data |-> IF k \in DOMAIN data THEN data[k] ELSE bag[k]]

\* ------------------------------------------------------- expiry predicates
\* _is_expired with the subtraction the wrong way round
is_expired_reversed(la, session_id, n) ==
    IF ~Has(la, session_id) THEN TRUE
    ELSE la[session_id] - n > Timeout

\* _is_expired, lines 124-129
\* the expiry check with >= for >
is_expired_nonstrict(la, session_id, n) ==
    IF ~Has(la, session_id) THEN TRUE
    ELSE n - la[session_id] >= Timeout

_is_expired(la, session_id, n) ==
    IF ~Has(la, session_id) THEN TRUE
    ELSE n - la[session_id] > Timeout

\* the comprehension with >= for >
expired_sessions_nonstrict(la, n) ==
    {session_id \in DOMAIN la : n - la[session_id] >= Timeout}

\* the list comprehension of the reaper, lines 36-40
expired_sessions(la, n) == {session_id \in DOMAIN la : n - la[session_id] > Timeout}

\* a set of tokens as the list the comprehension builds (dict order = issue order)
RECURSIVE InOrder(_)
InOrder(S) ==
    IF S = {} THEN << >>
    ELSE LET m == CHOOSE x \in S : \A y \in S : x <= y
         IN <<m>> \o InOrder(S \ {m})

\* ---------------------------------------------------------------- frames
\* who holds the loop ("req", "reaper" or "none"), the method and its arguments,
\* the line it is at, its result, and what the store and the clock were when it
\* was entered
Idle ==
    [who |-> "none", op |-> "none", tok |-> 0, data |-> EmptyBag, pc |-> "idle",
     ret |-> "pending", bag |-> EmptyBag,
     pre_s |-> EmptyBag, pre_l |-> EmptyBag, pre_d |-> {}, t0 |-> 0, todo |-> << >>]
NewFrame(who, op, tok, data) ==
    [who |-> who, op |-> op, tok |-> tok, data |-> data, pc |-> "enter",
     ret |-> "pending", bag |-> EmptyBag,
     pre_s |-> sessions, pre_l |-> last_activity, pre_d |-> deleted, t0 |-> now,
     todo |-> << >>]

\* no handler runs, none is suspended, none has answered
NoHandler == [fn |-> "none", pc |-> "none", tok |-> 0]
NoHandlers == [running |-> NoHandler, waiting |-> {}, loggedout |-> {}, failed |-> {}]

StoreInit ==
    /\ sessions = EmptyBag
    /\ last_activity = EmptyBag
    /\ cleanup_task = "None"
    /\ reaper = "none"
    /\ app = "created"
    /\ now = 0
    /\ frame = Idle
    /\ issued = {}
    /\ deleted = {}
    /\ untouched = {}
    /\ handlers = NoHandlers

\* no call of the aggregation engine has been made
NoRequest == [fn |-> "none"]
NoOutput == [kind |-> "none"]

Init ==
    /\ StoreInit
    /\ activities = << >>
    /\ request = NoRequest
    /\ output = NoOutput

\* ---------------------------------------------------------------- clock
\* A method reads the clock once, so time passing inside it is time passing
\* before it; get_session reads it twice (line 128, then line 77), and there
\* the clock may advance between the two.
Tick ==
    /\ now < MaxTime
    /\ frame.pc \in {"idle", "L77"}
    /\ now' = now + 1
    /\ UNCHANGED <<sessions, last_activity, cleanup_task, reaper, app, frame, issued, deleted, untouched, handlers, engine>>

\* ------------------------------------------------------------- lifespan
\* lifespan before the yield: SessionManager(...), start_cleanup_task()
Startup ==
    /\ app = "created"
    /\ frame = Idle
    /\ app' = "serving"
    /\ cleanup_task' = "Task"
    /\ reaper' = IF cleanup_task = "None" THEN "sleep" ELSE reaper
    /\ UNCHANGED <<sessions, last_activity, now, frame, issued, deleted, untouched, handlers, engine>>

\* lifespan after the yield: one log line, nothing else
Shutdown ==
    /\ app = "serving"
    /\ frame = Idle
    /\ app' = "shutdown"
    /\ UNCHANGED <<sessions, last_activity, cleanup_task, reaper, now, frame, issued, deleted, untouched, handlers, engine>>

\* ------------------------------------------------- a request calls the store
\* A handler (auth.py, activities.py, export.py, main.py) runs on the loop and
\* calls one method of the store; the token comes from the request's cookie.
\* a call that does not wait for the loop: it cuts into the call that holds it
Call_preempting(op, tok, data, pc) ==
    /\ app = "serving"
    /\ frame' = [NewFrame("req", op, tok, data) EXCEPT !.pc = pc]
    /\ UNCHANGED <<sessions, last_activity, cleanup_task, reaper, app, now, issued, deleted, untouched, handlers, engine>>

Call(op, tok, data, pc) ==
    /\ app = "serving"
    /\ frame = Idle
    /\ frame' = [NewFrame("req", op, tok, data) EXCEPT !.pc = pc]
    /\ UNCHANGED <<sessions, last_activity, cleanup_task, reaper, app, now, issued, deleted, untouched, handlers, engine>>

CallCreate ==
    /\ issued # Tokens
    /\ Call("create", 0, EmptyBag, "L53")

CallGet == \E t \in Tokens : Call("get", t, EmptyBag, "L68")

CallUpdate == \E t \in Tokens, data \in Bags : Call("update", t, data, "L91")

CallDelete == \E t \in Tokens : Call("delete", t, EmptyBag, "L108")

\* the return statement of a method hands the loop back
Return ==
    /\ frame.pc = "ret"
    /\ frame' = Idle
    /\ untouched' = IF frame.op = "create" THEN untouched ELSE untouched \ {frame.tok}
    /\ UNCHANGED <<sessions, last_activity, cleanup_task, reaper, app, now, issued, deleted, handlers, engine>>

At(op, pc) == frame.op = op /\ frame.pc = pc

\* --------------------------------------------------------- create_session
NewToken == CHOOSE t \in Tokens \ issued : \A u \in Tokens \ issued : t <= u

\* lines 53-54
create_session_L54 ==
    /\ At("create", "L53")
    /\ sessions' = Put(sessions, NewToken, EmptyBag)
    /\ frame' = [frame EXCEPT !.tok = NewToken, !.pc = "L55"]
    /\ UNCHANGED <<last_activity, cleanup_task, reaper, app, now, issued, deleted, untouched, handlers, engine>>

\* create_session without the time stamp of line 55
create_session_L55_nostamp ==
    /\ At("create", "L55")
    /\ issued' = issued \cup {frame.tok}
    /\ untouched' = untouched \cup {frame.tok}
    /\ frame' = [frame EXCEPT !.pc = "ret", !.ret = "Token"]
    /\ UNCHANGED <<sessions, last_activity, cleanup_task, reaper, app, now, deleted, handlers, engine>>

\* lines 55-56
create_session_L55 ==
    /\ At("create", "L55")
    /\ last_activity' = Put(last_activity, frame.tok, now)
    /\ issued' = issued \cup {frame.tok}
    /\ untouched' = untouched \cup {frame.tok}
    /\ frame' = [frame EXCEPT !.pc = "ret", !.ret = "Token"]
    /\ UNCHANGED <<sessions, cleanup_task, reaper, app, now, deleted, handlers, engine>>

\* ------------------------------------------------------------ get_session
\* lines 68-69
get_session_L68 ==
    /\ At("get", "L68")
    /\ frame' = IF ~Has(sessions, frame.tok)
                THEN [frame EXCEPT !.pc = "ret", !.ret = "None"]
                ELSE [frame EXCEPT !.pc = "L72"]
    /\ UNCHANGED <<sessions, last_activity, cleanup_task, reaper, app, now, issued, deleted, untouched, handlers, engine>>

\* lines 72-73: the expiry check, then the call of delete_session
get_session_L72 ==
    /\ At("get", "L72")
    /\ frame' = IF _is_expired(last_activity, frame.tok, now)
                THEN [frame EXCEPT !.pc = "L108"]
                ELSE [frame EXCEPT !.pc = "L77"]
    /\ UNCHANGED <<sessions, last_activity, cleanup_task, reaper, app, now, issued, deleted, untouched, handlers, engine>>

\* get_session without the refresh of line 77
get_session_L77_norefresh ==
    /\ At("get", "L77")
    /\ frame' = [frame EXCEPT !.pc = "ret", !.ret = "Bag", !.bag = sessions[frame.tok]]
    /\ UNCHANGED <<sessions, last_activity, cleanup_task, reaper, app, now, issued, deleted, untouched, handlers, engine>>

\* lines 77-78
get_session_L77 ==
    /\ At("get", "L77")
    /\ last_activity' = Put(last_activity, frame.tok, now)
    /\ frame' = [frame EXCEPT !.pc = "ret", !.ret = "Bag", !.bag = sessions[frame.tok]]
    /\ UNCHANGED <<sessions, cleanup_task, reaper, app, now, issued, deleted, untouched, handlers, engine>>

\* --------------------------------------------------------- update_session
\* update_session that creates the entry it does not find
update_session_L91_upsert ==
    /\ At("update", "L91")
    /\ sessions' = IF Has(sessions, frame.tok) THEN sessions
                   ELSE Put(sessions, frame.tok, EmptyBag)
    /\ frame' = [frame EXCEPT !.pc = "L94"]
    /\ UNCHANGED <<last_activity, cleanup_task, reaper, app, now, issued, deleted, untouched, handlers, engine>>

\* lines 91-92
update_session_L91 ==
    /\ At("update", "L91")
    /\ frame' = IF ~Has(sessions, frame.tok)
                THEN [frame EXCEPT !.pc = "ret", !.ret = "False"]
                ELSE [frame EXCEPT !.pc = "L94"]
    /\ UNCHANGED <<sessions, last_activity, cleanup_task, reaper, app, now, issued, deleted, untouched, handlers, engine>>

\* line 94
update_session_L94 ==
    /\ At("update", "L94")
    /\ sessions' = Put(sessions, frame.tok, DictUpdate(sessions[frame.tok], frame.data))
    /\ frame' = [frame EXCEPT !.pc = "L95"]
    /\ UNCHANGED <<last_activity, cleanup_task, reaper, app, now, issued, deleted, untouched, handlers, engine>>

\* lines 95-96
update_session_L95 ==
    /\ At("update", "L95")
    /\ last_activity' = Put(last_activity, frame.tok, now)
    /\ frame' = [frame EXCEPT !.pc = "ret", !.ret = "True"]
    /\ UNCHANGED <<sessions, cleanup_task, reaper, app, now, issued, deleted, untouched, handlers, engine>>

\* --------------------------------------------------------- delete_session
\* get_active_session_count, lines 131-133
get_active_session_count == Cardinality(DOMAIN sessions)

\* a sweep that gives up after its first delete_session
DeleteReturns_break(result) ==
    IF frame.op = "delete" THEN [frame EXCEPT !.pc = "ret", !.ret = result]
    ELSE IF frame.op = "get" THEN [frame EXCEPT !.pc = "ret", !.ret = "None"]
    ELSE [frame EXCEPT !.pc = "L41", !.todo = << >>]

\* delete_session is called by a request, by get_session (line 73) and by the
\* reaper (line 42); frame.op says by whom, and so where its result goes.
DeleteReturns(result) ==
    IF frame.op = "delete" THEN [frame EXCEPT !.pc = "ret", !.ret = result]
    ELSE IF frame.op = "get" THEN [frame EXCEPT !.pc = "ret", !.ret = "None"]
    ELSE [frame EXCEPT !.pc = "L41", !.todo = Tail(frame.todo)]

InDelete(pc) == frame.op \in {"delete", "get", "sweep"} /\ frame.pc = pc

\* lines 108 and 112
delete_session_L108 ==
    /\ InDelete("L108")
    /\ frame' = IF Has(sessions, frame.tok)
                THEN [frame EXCEPT !.pc = "L109"]
                ELSE DeleteReturns("False")
    /\ UNCHANGED <<sessions, last_activity, cleanup_task, reaper, app, now, issued, deleted, untouched, handlers, engine>>

\* line 109
delete_session_L109 ==
    /\ InDelete("L109")
    /\ sessions' = Del(sessions, frame.tok)
    /\ frame' = [frame EXCEPT !.pc = "L110"]
    /\ UNCHANGED <<last_activity, cleanup_task, reaper, app, now, issued, deleted, untouched, handlers, engine>>

\* delete_session without line 110
delete_session_L110_keep ==
    /\ InDelete("L110")
    /\ deleted' = deleted \cup {frame.tok}
    /\ untouched' = untouched \ {frame.tok}
    /\ frame' = DeleteReturns("True")
    /\ UNCHANGED <<sessions, last_activity, cleanup_task, reaper, app, now, issued, handlers, engine>>

\* lines 110-111
delete_session_L110 ==
    /\ InDelete("L110")
    /\ Has(last_activity, frame.tok)
    /\ last_activity' = Del(last_activity, frame.tok)
    /\ deleted' = deleted \cup {frame.tok}
    /\ untouched' = untouched \ {frame.tok}
    /\ frame' = DeleteReturns("True")
    /\ UNCHANGED <<sessions, cleanup_task, reaper, app, now, issued, handlers, engine>>

\* ------------------------------------------------ _cleanup_expired_sessions
\* line 34: the sleep is over and the loop is free
ReaperWake ==
    /\ reaper = "sleep"
    /\ frame = Idle
    /\ reaper' = "run"
    /\ frame' = [NewFrame("reaper", "sweep", 0, EmptyBag) EXCEPT !.pc = "L35"]
    /\ UNCHANGED <<sessions, last_activity, cleanup_task, app, now, issued, deleted, untouched, handlers, engine>>

\* lines 35-40: now, and the list of the expired tokens
cleanup_L35 ==
    /\ At("sweep", "L35")
    /\ frame' = [frame EXCEPT !.t0 = now, !.pc = "L41",
                              !.todo = InOrder(expired_sessions(last_activity, now))]
    /\ UNCHANGED <<sessions, last_activity, cleanup_task, reaper, app, now, issued, deleted, untouched, handlers, engine>>

\* lines 41-42: the next token of the list goes to delete_session
cleanup_L41 ==
    /\ At("sweep", "L41")
    /\ frame.todo # << >>
    /\ frame' = [frame EXCEPT !.tok = Head(frame.todo), !.pc = "L108"]
    /\ UNCHANGED <<sessions, last_activity, cleanup_task, reaper, app, now, issued, deleted, untouched, handlers, engine>>

\* the list is done: while True leads back to the sleep of line 34
cleanup_L32 ==
    /\ At("sweep", "L41")
    /\ frame.todo = << >>
    /\ frame' = [frame EXCEPT !.pc = "swept"]
    /\ UNCHANGED <<sessions, last_activity, cleanup_task, reaper, app, now, issued, deleted, untouched, handlers, engine>>

\* a reaper that returns after its first sweep
ReaperSleep_once ==
    /\ At("sweep", "swept")
    /\ reaper' = "done"
    /\ frame' = Idle
    /\ UNCHANGED <<sessions, last_activity, cleanup_task, app, now, issued, deleted, untouched, handlers, engine>>

\* line 34: the await gives the loop up
ReaperSleep ==
    /\ At("sweep", "swept")
    /\ reaper' = "sleep"
    /\ frame' = Idle
    /\ UNCHANGED <<sessions, last_activity, cleanup_task, app, now, issued, deleted, untouched, handlers, engine>>

Next ==
    \/ Tick
    \/ Startup
    \/ Shutdown
    \/ CallCreate
    \/ CallGet
    \/ CallUpdate
    \/ CallDelete
    \/ Return
    \/ create_session_L54
    \/ create_session_L55
    \/ get_session_L68
    \/ get_session_L72
    \/ get_session_L77
    \/ update_session_L91
    \/ update_session_L94
    \/ update_session_L95
    \/ delete_session_L108
    \/ delete_session_L109
    \/ delete_session_L110
    \/ ReaperWake
    \/ cleanup_L35
    \/ cleanup_L41
    \/ cleanup_L32
    \/ ReaperSleep

Spec == Init /\ [][Next]_vars

\* ---- scheduling
\* A statement of the call that holds the loop: plain Python, it runs on.
RunStep ==
    \/ Return
    \/ create_session_L54 \/ create_session_L55
    \/ get_session_L68 \/ get_session_L72 \/ get_session_L77
    \/ update_session_L91 \/ update_session_L94 \/ update_session_L95
    \/ delete_session_L108 \/ delete_session_L109 \/ delete_session_L110
    \/ cleanup_L35 \/ cleanup_L41 \/ cleanup_L32 \/ ReaperSleep

\* The running call goes on to its end; the application starts; the clock
\* advances whenever the loop lets it, up to MaxTime; and the reaper, whose
\* sleep ends again and again, gets the loop again and again (the ready queue
\* of the event loop is first in, first out), however many requests arrive.
\* Requests themselves are not obliged to arrive.
FairSpec ==
    /\ Spec
    /\ WF_vars(RunStep)
    /\ WF_vars(Startup)
    /\ SF_vars(Tick)
    /\ SF_vars(ReaperWake)

\* ======================================================================
\* The aggregation engine (backend/services/data_processor.py) and the export
\* view (backend/api/export.py).
\*
\* Optional[float] is a set with at most one element: {} is None (and the NaN
\* pandas makes of it), {v} is the value v.  Numbers are integers; a mean is
\* the fraction [num, den] of the sum and the count, not reduced.
\* ======================================================================
MaxRecords == 2    \* the longest list of activities

SeqsUpTo(S, n) == UNION {[1 .. k -> S] : k \in 0 .. n}

\* the optional metrics of an Activity, activity.py lines 17-28
AvgMetrics == {"avg_speed", "avg_power", "avg_hr", "avg_cadence"}
MaxMetrics == {"max_speed", "max_avg_power", "max_power", "max_hr", "max_elevation",
               "max_cadence"}
OptionalMetrics == AvgMetrics \cup MaxMetrics \cup {"total_ascent", "calories"}

\* An Activity (activity.py lines 8-28) whose avg_* metrics all hold a, whose
\* max_* metrics all hold m, with total_ascent s and calories c.
Activity(type, start, dur, dist, a, m, s, c) ==
    [activity_id |-> "id", activity_name |-> "ride", activity_type |-> type,
     start_time |-> start, duration |-> dur, distance |-> dist,
     avg_speed |-> a, max_speed |-> m, avg_power |-> a, max_avg_power |-> m,
     max_power |-> m, avg_hr |-> a, max_hr |-> m, total_ascent |-> s,
     max_elevation |-> m, avg_cadence |-> a, max_cadence |-> m, calories |-> c]

RECURSIVE SumSeq(_)
SumSeq(q) == IF q = << >> THEN 0 ELSE Head(q) + SumSeq(Tail(q))

RECURSIVE MaxSeq(_)
MaxSeq(q) ==
    IF Len(q) = 1 THEN Head(q)
    ELSE LET r == MaxSeq(Tail(q)) IN IF Head(q) >= r THEN Head(q) ELSE r

\* df[column]: the column of a DataFrame made of the records
Column(acts, column) == [i \in 1 .. Len(acts) |-> acts[i][column]]

\* fillna(0) in place of dropna(): a missing value counts as 0
dropna_fillzero(col) ==
    [i \in 1 .. Len(col) |-> IF col[i] = {} THEN 0 ELSE CHOOSE v \in col[i] : TRUE]

\* Series.dropna(): the present values, in order
RECURSIVE dropna(_)
dropna(col) ==
    IF col = << >> THEN << >>
    ELSE IF Head(col) = {} THEN dropna(Tail(col))
    ELSE <<CHOOSE v \in Head(col) : TRUE>> \o dropna(Tail(col))

\* the mean over all N records, a missing value counting as 0
safe_mean_fillna(acts, column) ==
    LET values == dropna_fillzero(Column(acts, column))
    IN IF Len(values) > 0 THEN {[num |-> SumSeq(values), den |-> Len(values)]} ELSE {}

\* data_processor.py lines 117-119
safe_mean(acts, column) ==
    LET values == dropna(Column(acts, column))
    IN IF Len(values) > 0 THEN {[num |-> SumSeq(values), den |-> Len(values)]} ELSE {}

\* lines 121-123
safe_max(acts, column) ==
    LET values == dropna(Column(acts, column))
    IN IF Len(values) > 0 THEN {MaxSeq(values)} ELSE {}

\* lines 125-127
safe_sum(acts, column) ==
    LET values == dropna(Column(acts, column))
    IN IF Len(values) > 0 THEN {SumSeq(values)} ELSE {}

\* `x or 0` on an Optional number (line 144)
OrZero(x) == IF x = {} \/ x = {0} THEN 0 ELSE CHOOSE v \in x : TRUE

\* ActivitySummary(...) with the defaults of activity.py lines 51-62
ActivitySummary(n, duration, distance) ==
    [total_activities |-> n, total_duration |-> duration, total_distance |-> distance,
     avg_speed |-> {}, max_speed |-> {}, avg_power |-> {}, max_avg_power |-> {},
     max_power |-> {}, avg_hr |-> {}, max_hr |-> {}, total_ascent |-> {},
     max_elevation |-> {}, avg_cadence |-> {}, max_cadence |-> {}, total_calories |-> {}]

\* an empty list summarised like any other: the sums of nothing
calculate_summary_noguard(acts) ==
    [ActivitySummary(Len(acts), SumSeq(Column(acts, "duration")),
                     SumSeq(Column(acts, "distance")))
     EXCEPT !.total_calories = {OrZero(safe_sum(acts, "calories"))},
            !.total_ascent = {OrZero(safe_sum(acts, "total_ascent"))}]

\* total_calories without the `or 0`
calculate_summary_nocoerce(acts) ==
    IF acts = << >> THEN ActivitySummary(0, 0, 0)
    ELSE [ActivitySummary(Len(acts), SumSeq(Column(acts, "duration")),
                          SumSeq(Column(acts, "distance")))
          EXCEPT !.avg_speed = safe_mean(acts, "avg_speed"),
                 !.max_speed = safe_max(acts, "max_speed"),
                 !.avg_power = safe_mean(acts, "avg_power"),
                 !.max_avg_power = safe_max(acts, "max_avg_power"),
                 !.max_power = safe_max(acts, "max_power"),
                 !.avg_hr = safe_mean(acts, "avg_hr"),
                 !.max_hr = safe_max(acts, "max_hr"),
                 !.total_ascent = safe_sum(acts, "total_ascent"),
                 !.max_elevation = safe_max(acts, "max_elevation"),
                 !.avg_cadence = safe_mean(acts, "avg_cadence"),
                 !.max_cadence = safe_max(acts, "max_cadence"),
                 !.total_calories = safe_sum(acts, "calories")]

\* calculate_summary, data_processor.py lines 100-145
calculate_summary(acts) ==
    IF acts = << >> THEN ActivitySummary(0, 0, 0)
    ELSE [ActivitySummary(Len(acts), SumSeq(Column(acts, "duration")),
                          SumSeq(Column(acts, "distance")))
          EXCEPT !.avg_speed = safe_mean(acts, "avg_speed"),
                 !.max_speed = safe_max(acts, "max_speed"),
                 !.avg_power = safe_mean(acts, "avg_power"),
                 !.max_avg_power = safe_max(acts, "max_avg_power"),
                 !.max_power = safe_max(acts, "max_power"),
                 !.avg_hr = safe_mean(acts, "avg_hr"),
                 !.max_hr = safe_max(acts, "max_hr"),
                 !.total_ascent = safe_sum(acts, "total_ascent"),
                 !.max_elevation = safe_max(acts, "max_elevation"),
                 !.avg_cadence = safe_mean(acts, "avg_cadence"),
                 !.max_cadence = safe_max(acts, "max_cadence"),
                 !.total_calories = {OrZero(safe_sum(acts, "calories"))}]

\* ---- the specification of calculate_summary: every list of up to MaxRecords
\* activities whose metrics are absent or one of two values
SummaryInputs ==
    SeqsUpTo({Activity("cycling", 1, 1800, 1000, a, m, s, c) :
                a \in {{}, {1}, {2}}, m \in {{}, {1}, {2}},
                s \in {{}, {0}, {2}}, c \in {{}, {0}, {3}}},
             MaxRecords)

SummaryInit ==
    /\ StoreInit
    /\ activities \in SummaryInputs
    /\ request = NoRequest
    /\ output = NoOutput

\* get_summary, list_activities, fetch_activities and export_pdf call it
Summarize ==
    /\ request = NoRequest
    /\ request' = [fn |-> "calculate_summary"]
    /\ output' = [kind |-> "summary", value |-> calculate_summary(activities)]
    /\ UNCHANGED <<store_vars, activities>>

SummaryNext == Summarize
SummarySpec == SummaryInit /\ [][SummaryNext]_vars

\* ----------------------------------------------------------------------
\* filter_activities, data_processor.py lines 147-178.  An optional argument
\* is {} when None and {x} when x is passed; a date is a positive integer (a
\* datetime is always truthy).
\* ----------------------------------------------------------------------
MaxDate == 3     \* the dates are 1 .. MaxDate

ActivityTypes == {"cycling", "running"}
Dates == 1 .. MaxDate
Opt(S) == {{}} \cup {{x} : x \in S}

\* `if x:` on an Optional list: None and the empty list are both falsy
TruthyList(x) == x # {} /\ x # {{}}

TypeIn(a, types) == a.activity_type \in types       \* line 167
NotBefore(a, d) == a.start_time >= d                \* line 171
NotAfter(a, d) == a.start_time <= d                 \* line 173

filter_activities(acts, activity_types, start_date, end_date) ==
    LET OfType(a) == TypeIn(a, CHOOSE t \in activity_types : TRUE)
        FromStart(a) == NotBefore(a, CHOOSE d \in start_date : TRUE)
        ToEnd(a) == NotAfter(a, CHOOSE d \in end_date : TRUE)
        f0 == acts
        f1 == IF TruthyList(activity_types) THEN SelectSeq(f0, OfType) ELSE f0
        f2 == IF start_date # {} THEN SelectSeq(f1, FromStart) ELSE f1
        f3 == IF end_date # {} THEN SelectSeq(f2, ToEnd) ELSE f2
    IN f3

FilterInputs ==
    SeqsUpTo({Activity(t, d, 1800, 1000, {}, {}, {}, {}) : t \in ActivityTypes, d \in Dates},
             MaxRecords)

FilterInit ==
    /\ StoreInit
    /\ activities \in FilterInputs
    /\ request = NoRequest
    /\ output = NoOutput

\* A call of filter_activities.  The function assigns to its local `filtered`
\* only and builds new lists: the caller's list is not written.
Filter ==
    /\ request = NoRequest
    /\ \E types \in Opt(SUBSET ActivityTypes), start \in Opt(Dates), end \in Opt(Dates) :
         /\ request' = [fn |-> "filter_activities", given |-> activities,
                        activity_types |-> types, start_date |-> start, end_date |-> end]
         /\ output' = [kind |-> "list",
                       value |-> filter_activities(activities, types, start, end)]
    /\ UNCHANGED <<store_vars, activities>>

FilterNext == Filter
FilterSpec == FilterInit /\ [][FilterNext]_vars

\* ----------------------------------------------------------------------
\* The export view, export.py: export_csv (lines 37-191) and export_pdf
\* (lines 195-371).
\*
\* A cell of a DataFrame is NaN, a number num/den, a string, a clock string or
\* a date.  A label is the sequence of its words, so that `"Max" in label`
\* is a test on the words.  A query string of comma-separated items is the
\* sequence of its items: "" is <<"">>, "a,b" is <<"a", "b">>.
\* ----------------------------------------------------------------------
MaxRequest == 2    \* the most items of a `columns` query string

NaN == [kind |-> "nan"]
Num(n, d) == [kind |-> "num", num |-> n, den |-> d]
Str(s) == [kind |-> "str", s |-> s]
Clock(fields) == [kind |-> "clock", fields |-> fields]
Date(d) == [kind |-> "date", d |-> d]

\* f"{int(x // 3600):02d}:{int((x % 3600) // 60):02d}:{int(x % 60):02d}"
duration_formatted(x) == Clock(<<x \div 3600, (x % 3600) \div 60, x % 60>>)

\* one cell of activities_to_dataframe(activities), data_processor.py 194-214;
\* a None of the record is NaN in the frame, and NaN * 3.6 is NaN
Cell(a, df_col) ==
    CASE df_col = "start_time" -> Date(a.start_time)
      [] df_col \in {"activity_name", "activity_type"} -> Str(a[df_col])
      [] df_col = "duration_formatted" -> duration_formatted(a.duration)
      [] df_col = "duration" -> Num(a.duration, 1)
      [] df_col = "distance_km" -> Num(a.distance, 1000)
      [] df_col = "avg_speed_kmh" ->
            IF a.avg_speed = {} THEN NaN ELSE Num(18 * (CHOOSE v \in a.avg_speed : TRUE), 5)
      [] df_col = "max_speed_kmh" ->
            IF a.max_speed = {} THEN NaN ELSE Num(18 * (CHOOSE v \in a.max_speed : TRUE), 5)
      [] OTHER -> IF a[df_col] = {} THEN NaN ELSE Num(CHOOSE v \in a[df_col] : TRUE, 1)

\* df[df_col]
Series(acts, df_col) == [i \in 1 .. Len(acts) |-> Cell(acts[i], df_col)]

notna(cell) == cell.kind # "nan"
\* one element of `series.fillna(0) == 0`: a string or a date never equals 0
fillna0_eq0(cell) == cell.kind = "nan" \/ (cell.kind = "num" /\ cell.num = 0)

\* df[df_col].notna().sum() == 0 or (df[df_col].fillna(0) == 0).all()
NoData(series) ==
    \/ \A i \in DOMAIN series : ~notna(series[i])
    \/ \A i \in DOMAIN series : fillna0_eq0(series[i])

\* column_mapping.keys(), in insertion order (export.py 74-91 and 235-252)
column_keys ==
    <<"start_time", "activity_name", "activity_type", "duration", "distance",
      "avg_speed", "max_speed", "avg_power", "max_power", "avg_hr", "max_hr",
      "total_ascent", "max_elevation", "avg_cadence", "max_cadence", "calories">>

KnownKeys == {column_keys[i] : i \in DOMAIN column_keys}

\* column_mapping[key] of export_csv
column_mapping(key) ==
    CASE key = "start_time" -> [df_col |-> "start_time", label |-> <<"Date">>]
      [] key = "activity_name" -> [df_col |-> "activity_name", label |-> <<"Activity", "Name">>]
      [] key = "activity_type" -> [df_col |-> "activity_type", label |-> <<"Type">>]
      [] key = "duration" -> [df_col |-> "duration_formatted", label |-> <<"Duration">>]
      [] key = "distance" -> [df_col |-> "distance_km", label |-> <<"Distance", "(km)">>]
      [] key = "avg_speed" -> [df_col |-> "avg_speed_kmh", label |-> <<"Avg", "Speed", "(km/h)">>]
      [] key = "max_speed" -> [df_col |-> "max_speed_kmh", label |-> <<"Max", "Speed", "(km/h)">>]
      [] key = "avg_power" -> [df_col |-> "avg_power", label |-> <<"Avg", "Power", "(W)">>]
      [] key = "max_power" -> [df_col |-> "max_power", label |-> <<"Max", "Power", "(W)">>]
      [] key = "avg_hr" -> [df_col |-> "avg_hr", label |-> <<"Avg", "HR", "(bpm)">>]
      [] key = "max_hr" -> [df_col |-> "max_hr", label |-> <<"Max", "HR", "(bpm)">>]
      [] key = "total_ascent" -> [df_col |-> "total_ascent", label |-> <<"Elevation", "Gain", "(m)">>]
      [] key = "max_elevation" -> [df_col |-> "max_elevation", label |-> <<"Max", "Elevation", "(m)">>]
      [] key = "avg_cadence" -> [df_col |-> "avg_cadence", label |-> <<"Avg", "Cadence", "(rpm)">>]
      [] key = "max_cadence" -> [df_col |-> "max_cadence", label |-> <<"Max", "Cadence", "(rpm)">>]
      [] key = "calories" -> [df_col |-> "calories", label |-> <<"Calories">>]

\* `word in label`
InLabel(word, label) == \E i \in DOMAIN label : label[i] = word

\* str.strip() on an item of a query string
strip(item) == IF item = " distance" THEN "distance" ELSE item

\* `if s:` on an Optional query string: None and "" are falsy
TruthyString(s) == s # {} /\ s # {<<"">>}

\* selected_keys, export.py 94-96: None, or the stripped items
selected_keys(columns) ==
    IF TruthyString(columns)
    THEN LET items == CHOOSE q \in columns : TRUE
         IN {[i \in DOMAIN items |-> strip(items[i])]}
    ELSE {}

InSet(key, selected_set) == key \in selected_set

\* the keys in the order of the request, duplicates dropped
RECURSIVE Dedup(_)
Dedup(q) ==
    IF q = << >> THEN << >>
    ELSE LET r == Dedup(Tail(q))
         IN IF \E i \in DOMAIN r : r[i] = Head(q) THEN r ELSE <<Head(q)>> \o r

ordered_keys_as_requested(selected) ==
    IF selected # {}
    THEN LET keys == CHOOSE q \in selected : TRUE
             Known(key) == InSet(key, KnownKeys)
         IN SelectSeq(Dedup(keys), Known)
    ELSE column_keys

\* ordered_keys, export.py 102-106
ordered_keys(selected) ==
    IF selected # {}
    THEN LET keys == CHOOSE q \in selected : TRUE
             selected_set == {keys[i] : i \in DOMAIN keys}
             Selected(key) == InSet(key, selected_set)
         IN SelectSeq(column_keys, Selected)
    ELSE column_keys

HasData(key, acts) == ~NoData(Series(acts, column_mapping(key).df_col))

\* export_columns_list, export.py 108-118: every key of ordered_keys is in
\* column_mapping and every df_col is a column of the frame
export_columns_list(acts, ordered) ==
    LET Kept(key) == HasData(key, acts)
    IN SelectSeq(ordered, Kept)

\* ---- rounding
\* round half to even of num/den, den > 0
RoundHalfEven(num, den) ==
    LET q == num \div den
        r == num % den
    IN IF 2 * r < den THEN q
       ELSE IF 2 * r > den THEN q + 1
       ELSE IF q % 2 = 0 THEN q ELSE q + 1

\* round(value, 1), round(value, 2), int(round(value, 0))
round1(v) == Num(RoundHalfEven(10 * v.num, v.den), 10)
round2(v) == Num(RoundHalfEven(100 * v.num, v.den), 100)
round0(v) == Num(RoundHalfEven(v.num, v.den), 1)

\* ---- Series.sum(), .max(), .mean() skip NaN; the cells of one numeric
\* column share their denominator
Present(series) == SelectSeq(series, notna)
Nums(series) == [i \in DOMAIN Present(series) |-> Present(series)[i].num]
DenOf(series) == Present(series)[1].den
series_sum(series) == Num(SumSeq(Nums(series)), DenOf(series))
series_max(series) == Num(MaxSeq(Nums(series)), DenOf(series))
series_mean(series) == Num(SumSeq(Nums(series)), DenOf(series) * Len(Present(series)))
notna_any(series) == \E i \in DOMAIN series : notna(series[i])

\* `if value`: "" and 0 are falsy
Truthy(v) == v.kind = "num" /\ v.num # 0

\* the Max and Avg branches, export.py 147-164
rounded(value, label) ==
    IF Truthy(value) /\ InLabel("Speed", label) THEN round1(value)
    ELSE IF Truthy(value) THEN round0(value)
    ELSE Str("")

\* totals[label] of the i-th export column, export.py 128-166
totals(acts, cols, i) ==
    LET label == column_mapping(cols[i]).label
        column == Series(acts, column_mapping(cols[i]).df_col)
    IN IF i = 1 THEN Str("TOTAL")
       ELSE IF label \in {<<"Activity", "Name">>, <<"Type">>, <<"Date">>} THEN Str("")
       ELSE IF label = <<"Duration">>
       THEN LET total_seconds == SumSeq(Nums(Series(acts, "duration")))
            IN Clock(<<total_seconds \div 3600, (total_seconds % 3600) \div 60>>)
       ELSE IF label = <<"Distance", "(km)">>
       THEN IF notna_any(column) THEN round2(series_sum(column)) ELSE Str("")
       ELSE IF InLabel("Max", label)
       THEN rounded(IF notna_any(column) THEN series_max(column) ELSE Str(""), label)
       ELSE IF InLabel("Avg", label)
       THEN rounded(IF notna_any(column) THEN series_mean(column) ELSE Str(""), label)
       ELSE IF label \in {<<"Elevation", "Gain", "(m)">>, <<"Calories">>}
       THEN LET value == IF notna_any(column) THEN series_sum(column) ELSE Str("")
            IN IF Truthy(value) THEN round0(value) ELSE Str("")
       ELSE Str("")

HTTPException(status, detail) == [kind |-> "error", status |-> status, detail |-> detail]

\* types_filter, export.py 58-60: the one item of the activity_types string
types_filter(activity_types) ==
    IF activity_types # {} THEN {{strip(t) : t \in activity_types}} ELSE {}

\* export_csv and export_pdf up to the end of the column selection and, for
\* csv, the totals row
export(format, acts, activity_types, columns) ==
    IF acts = << >> THEN HTTPException(404, "No activities found")
    ELSE LET filtered == filter_activities(acts, types_filter(activity_types), {}, {})
         IN IF filtered = << >> THEN HTTPException(404, "No activities match the filter")
            ELSE LET cols == export_columns_list(filtered, ordered_keys(selected_keys(columns)))
                 IN IF cols = << >>
                    THEN HTTPException(404, "No data to export with selected columns")
                    ELSE [kind |-> format, rows |-> filtered, columns |-> cols,
                          totals |-> IF format = "csv"
                                     THEN [i \in DOMAIN cols |-> totals(filtered, cols, i)]
                                     ELSE << >>]

\* ---- the specification of the export view
\* the items of a `columns` string: two known keys, a padded known key and the
\* empty item (of "" or of a doubled comma), which is no key of the table
RequestItems == {"start_time", "max_elevation", " distance", ""}

ColumnRequests == Opt(SeqsUpTo(RequestItems, MaxRequest) \ {<< >>})

\* a record that did or did not move (duration and distance), with the speeds
\* v and the other optional metrics w
ExportInputs ==
    SeqsUpTo({[Activity("cycling", 1, dur, dur \div 3, w, w, w, w)
                 EXCEPT !.avg_speed = v, !.max_speed = v] :
                dur \in {0, 5400}, v \in {{}, {6}}, w \in {{}, {-2}, {0}, {3}}},
             MaxRecords)

ExportInit ==
    /\ StoreInit
    /\ activities \in ExportInputs
    /\ request = NoRequest
    /\ output = NoOutput

ExportCall(format) ==
    /\ request = NoRequest
    /\ \E types \in Opt({"running"}), columns \in ColumnRequests :
         /\ request' = [fn |-> format, activity_types |-> types, columns |-> columns]
         /\ output' = export(format, activities, types, columns)
    /\ UNCHANGED <<store_vars, activities>>

export_csv == ExportCall("csv")
export_pdf == ExportCall("pdf")

ExportNext == export_csv \/ export_pdf
ExportSpec == ExportInit /\ [][ExportNext]_vars

\* ======================================================================
\* The request handlers (backend/api/auth.py, backend/api/activities.py).
\*
\* A handler is a coroutine on the event loop.  It calls the store with plain
\* calls, which run to their return as the steps above, and it has at most one
\* await, on GarminService.login or GarminService.get_activities.  At that
\* await the handler is taken off the loop: the clock may advance, and other
\* handlers and the reaper may run before it resumes.  (The two coroutines of
\* garmin.py, lines 29-53 and 55-102, call the Garmin client without an await
\* of their own, so they hold the loop while the clock advances; those runs
\* are the ones below in which the handler resumes before anything else gets
\* the loop.)
\* ======================================================================
Running(fn, pc) == handlers.running.fn = fn /\ handlers.running.pc = pc

\* a store method called by the running handler
StoreCall(op, tok, data, pc) == [NewFrame("req", op, tok, data) EXCEPT !.pc = pc]

\* the history of a store call that has returned (as Return does it)
EndCall == untouched' = IF frame.op = "create" THEN untouched ELSE untouched \ {frame.tok}

\* a request arrives: its handler gets the free loop and makes its first call
Begin(fn, pc, tok, call) ==
    /\ app = "serving"
    /\ frame = Idle
    /\ handlers.running = NoHandler
    /\ handlers' = [handlers EXCEPT !.running = [fn |-> fn, pc |-> pc, tok |-> tok]]
    /\ frame' = call
    /\ UNCHANGED <<sessions, last_activity, cleanup_task, reaper, app, now, issued, deleted, untouched, engine>>

\* the running handler, whose store call has returned, makes its next call
Proceed(pc, call) ==
    /\ frame.pc = "ret"
    /\ handlers' = [handlers EXCEPT !.running.pc = pc]
    /\ frame' = call
    /\ EndCall
    /\ UNCHANGED <<sessions, last_activity, cleanup_task, reaper, app, now, issued, deleted, engine>>

\* the running handler, whose store call has returned, reaches its await
Suspend(pc, tok) ==
    /\ frame.pc = "ret"
    /\ handlers' = [handlers EXCEPT
                      !.running = NoHandler,
                      !.waiting = @ \cup {[fn |-> handlers.running.fn, pc |-> pc, tok |-> tok]}]
    /\ frame' = Idle
    /\ EndCall
    /\ UNCHANGED <<sessions, last_activity, cleanup_task, reaper, app, now, issued, deleted, engine>>

\* the awaited call of a suspended handler is over: the handler gets the free
\* loop again and makes its next store call
Resume(h, pc, call) ==
    /\ frame = Idle
    /\ handlers.running = NoHandler
    /\ h \in handlers.waiting
    /\ handlers' = [handlers EXCEPT !.running = [h EXCEPT !.pc = pc],
                                    !.waiting = @ \ {h}]
    /\ frame' = call
    /\ UNCHANGED <<sessions, last_activity, cleanup_task, reaper, app, now, issued, deleted, untouched, engine>>

\* the history of the answers: the logouts of tokens that create_session has
\* issued (a cookie with any other value names no session: session.py 53 draws
\* every token from secrets.token_urlsafe(32)), and the logins answered with
\* an error status
Answered(h, status) ==
    [handlers EXCEPT
        !.loggedout = IF h.fn = "logout" /\ h.tok \in issued THEN @ \cup {h.tok} ELSE @,
        !.failed = IF h.fn = "login" /\ status # "303" THEN @ \cup {h.tok} ELSE @]

\* the running handler returns or raises HTTPException after a store call
Respond(status) ==
    /\ frame.pc = "ret"
    /\ handlers' = [Answered(handlers.running, status) EXCEPT !.running = NoHandler]
    /\ frame' = Idle
    /\ EndCall
    /\ UNCHANGED <<sessions, last_activity, cleanup_task, reaper, app, now, issued, deleted, engine>>

\* a suspended handler resumes with an exception and raises HTTPException
\* without another store call
Fail(h, status) ==
    /\ frame = Idle
    /\ handlers.running = NoHandler
    /\ h \in handlers.waiting
    /\ handlers' = [Answered(h, status) EXCEPT !.waiting = @ \ {h}]
    /\ UNCHANGED <<sessions, last_activity, cleanup_task, reaper, app, now, frame, issued, deleted, untouched, engine>>

\* `if not session`: None and the empty dict are falsy
NoSession == frame.ret = "None" \/ frame.bag = EmptyBag

\* ---------------------------------------------------- login, auth.py 13-77
\* what login stores: garmin_service, email, the dates and an empty list
LoginData == [k \in {"email"} |-> "a"]

\* line 32: session_id = session_manager.create_session()
login_L32 ==
    /\ issued # Tokens
    /\ Begin("login", "L32", 0, StoreCall("create", 0, EmptyBag, "L53"))

\* line 39: await garmin_service.login(email, password)
login_L39 ==
    /\ Running("login", "L32")
    /\ Suspend("L39", frame.tok)

\* lines 42-55: the login succeeded, update_session(session_id, {...})
login_L45 ==
    \E h \in handlers.waiting :
        /\ h.fn = "login"
        /\ Resume(h, "L45", StoreCall("update", h.tok, LoginData, "L91"))

\* login that leaves the session of a failed attempt in the store
login_L72_nodelete ==
    \E h \in handlers.waiting :
        /\ h.fn = "login"
        /\ Resume(h, "L72", [StoreCall("delete", h.tok, EmptyBag, "ret") EXCEPT !.ret = "False"])

\* lines 69-72 and 74-76: the login raised, delete_session(session_id)
login_L72 ==
    \E h \in handlers.waiting :
        /\ h.fn = "login"
        /\ Resume(h, "L72", StoreCall("delete", h.tok, EmptyBag, "L108"))

\* lines 60-68: the redirect with the session cookie
login_L68 ==
    /\ Running("login", "L45")
    /\ Respond("303")

\* lines 73 and 77: raise HTTPException(401) or (500)
login_L73 ==
    /\ Running("login", "L72")
    /\ \E status \in {"401", "500"} : Respond(status)

\* ----------------------------------------- fetch_activities, activities.py 29-101
\* what fetch_activities stores: the activities and the dates
FetchData == [k \in {"activities"} |-> "b"]

\* line 45: get_session_data(request), which calls get_session (line 22)
fetch_L45 == \E t \in Tokens : Begin("fetch", "L45", t, StoreCall("get", t, EmptyBag, "L68"))

\* lines 23-24 and 48-49: no session, or no garmin_service in it
fetch_L24 ==
    /\ Running("fetch", "L45")
    /\ frame.pc = "ret"
    /\ IF NoSession THEN Respond("401")
       ELSE ~Has(frame.bag, "email") /\ Respond("500")

\* lines 55 and 63: a date of the request does not parse
fetch_L55 ==
    /\ Running("fetch", "L45")
    /\ frame.pc = "ret"
    /\ ~NoSession
    /\ Has(frame.bag, "email")
    /\ Respond("400")

\* line 70: await garmin_service.get_activities(start, end)
fetch_L70 ==
    /\ Running("fetch", "L45")
    /\ frame.pc = "ret"
    /\ ~NoSession
    /\ Has(frame.bag, "email")
    /\ Suspend("L70", handlers.running.tok)

\* lines 72-84: the activities came, update_session(cookie, {...})
fetch_L77 ==
    \E h \in handlers.waiting :
        /\ h.fn = "fetch"
        /\ Resume(h, "L77", StoreCall("update", h.tok, FetchData, "L91"))

\* lines 91-95: the result of update_session is not looked at
fetch_L91 ==
    /\ Running("fetch", "L77")
    /\ Respond("200")

\* lines 97-102: get_activities raised
fetch_L99 ==
    \E h \in handlers.waiting, status \in {"400", "500"} :
        /\ h.fn = "fetch"
        /\ Fail(h, status)

\* ---------------------------------------------------- logout, auth.py 80-100
\* line 87: session = session_manager.get_session(session_id)
logout_L87 == \E t \in Tokens : Begin("logout", "L87", t, StoreCall("get", t, EmptyBag, "L68"))

\* logout that does not delete the session
logout_L95_nodelete ==
    /\ Running("logout", "L87")
    /\ Proceed("L95", [StoreCall("delete", handlers.running.tok, EmptyBag, "ret")
                         EXCEPT !.ret = "False"])

\* line 95: session_manager.delete_session(session_id), whatever get returned
logout_L95 ==
    /\ Running("logout", "L87")
    /\ Proceed("L95", StoreCall("delete", handlers.running.tok, EmptyBag, "L108"))

\* lines 98-100: the redirect that clears the cookie
logout_L98 ==
    /\ Running("logout", "L95")
    /\ Respond("303")

\* --------------------------------------------------- status, auth.py 103-120
\* line 112: session = session_manager.get_session(session_id)
status_L112 == \E t \in Tokens : Begin("status", "L112", t, StoreCall("get", t, EmptyBag, "L68"))

\* lines 113-120
status_L113 ==
    /\ Running("status", "L112")
    /\ frame.pc = "ret"
    /\ Respond(IF NoSession THEN "anonymous" ELSE "authenticated")

\* the statements of the store: they run for the handler or the reaper that
\* called them
StoreStep ==
    \/ create_session_L54 \/ create_session_L55
    \/ get_session_L68 \/ get_session_L72 \/ get_session_L77
    \/ update_session_L91 \/ update_session_L94 \/ update_session_L95
    \/ delete_session_L108 \/ delete_session_L109 \/ delete_session_L110

ReaperStep == ReaperWake \/ cleanup_L35 \/ cleanup_L41 \/ cleanup_L32 \/ ReaperSleep

HandlerNext ==
    \/ Tick
    \/ Startup
    \/ Shutdown
    \/ login_L32 \/ login_L39 \/ login_L45 \/ login_L72 \/ login_L68 \/ login_L73
    \/ fetch_L45 \/ fetch_L24 \/ fetch_L55 \/ fetch_L70 \/ fetch_L77 \/ fetch_L91 \/ fetch_L99
    \/ logout_L87 \/ logout_L95 \/ logout_L98
    \/ status_L112 \/ status_L113
    \/ StoreStep
    \/ ReaperStep

HandlerSpec == Init /\ [][HandlerNext]_vars

\* ======================================================================
\* Properties
\* ======================================================================
\* a method of the store is at its return statement
Returned(op) == frame.op = op /\ frame.pc = "ret"

\* the token of the call was tracked and idle for more than the timeout when the
\* call was entered
ExpiredAtEntry ==
    /\ Has(frame.pre_l, frame.tok)
    /\ frame.t0 - frame.pre_l[frame.tok] > Timeout

StoreUnchanged == sessions = frame.pre_s /\ last_activity = frame.pre_l

\* what get_session would answer now: None, for a token not tracked or expired
GetWouldReturnNone(t) == ~Has(sessions, t) \/ _is_expired(last_activity, t, now)

\* C1: update_session never resurrects an expired or deleted session: on a token
\* that was deleted, or whose last_active is more than the timeout in the past
\* (swept or not), it returns False, leaves bag and last_active as they were,
\* and a get_session that follows returns None.
C1_UpdateNeverResurrects ==
    (Returned("update") /\ (frame.tok \in frame.pre_d \/ ExpiredAtEntry))
        => /\ frame.ret = "False"
           /\ StoreUnchanged
           /\ GetWouldReturnNone(frame.tok)

\* C1, the part the code keeps: update_session on a deleted token returns False
\* and leaves the store alone.
C1_UpdateOfDeleted ==
    (Returned("update") /\ frame.tok \in frame.pre_d)
        => /\ frame.ret = "False"
           /\ StoreUnchanged
           /\ ~Has(sessions, frame.tok)

\* C2: lazy expiry: get_session on a token whose last_active is more than the
\* timeout in the past returns None, whether or not a sweep has run, and the
\* same call removes the token from both dicts.
C2_LazyExpiry ==
    (Returned("get") /\ ExpiredAtEntry)
        => /\ frame.ret = "None"
           /\ ~Has(sessions, frame.tok)
           /\ ~Has(last_activity, frame.tok)

\* a get_session found a tracked, expired, unswept token and has removed it
C2_Witness ==
    /\ Returned("get")
    /\ ExpiredAtEntry
    /\ Has(frame.pre_s, frame.tok)
    /\ frame.ret = "None"
    /\ ~Has(sessions, frame.tok)
    /\ Cardinality(DOMAIN sessions) = Cardinality(DOMAIN frame.pre_s) - 1

\* the tokens of the store at the sweep's entry that its `now` finds expired
ExpiredBeforeSweep ==
    {t \in DOMAIN frame.pre_l : frame.t0 - frame.pre_l[t] > Timeout}

\* C3: when a sweep of the reaper has completed, get_active_session_count
\* counts no session that was expired before the sweep started: every such
\* token is gone from the store, and the count is that of the others.
C3_SweepRemovesExpired ==
    At("sweep", "swept")
        => /\ \A t \in ExpiredBeforeSweep : ~Has(sessions, t) /\ ~Has(last_activity, t)
           /\ get_active_session_count
                = Cardinality(DOMAIN frame.pre_s \ ExpiredBeforeSweep)

\* a sweep has completed that found both sessions expired
C3_Witness ==
    /\ At("sweep", "swept")
    /\ Cardinality(ExpiredBeforeSweep) = 2
    /\ get_active_session_count = 0

\* C4: get_session on a token that create_session never returned, or whose
\* session was deleted, returns None and leaves the store unchanged.
C4_GetOfUnknownToken ==
    (Returned("get") /\ (frame.tok \notin issued \/ frame.tok \in frame.pre_d))
        => /\ frame.ret = "None"
           /\ StoreUnchanged

\* a get_session on a deleted token has returned while another session lives
C4_Witness ==
    /\ Returned("get")
    /\ frame.tok \in frame.pre_d
    /\ frame.ret = "None"
    /\ sessions # EmptyBag

\* C5: get_session on a token create_session has just returned, with no more
\* than the timeout elapsed, returns the empty bag (not None) and sets the
\* token's last_active to the time of the get.
C5_GetAfterCreate ==
    (Returned("get") /\ frame.tok \in untouched /\ ~ExpiredAtEntry)
        => /\ frame.ret = "Bag"
           /\ frame.bag = EmptyBag
           /\ Has(last_activity, frame.tok)
           /\ last_activity[frame.tok] = now

\* the first get_session of a new token has returned, later than its creation
C5_Witness ==
    /\ Returned("get")
    /\ frame.tok \in untouched
    /\ frame.ret = "Bag"
    /\ frame.bag = EmptyBag
    /\ frame.pre_l[frame.tok] < now
    /\ last_activity[frame.tok] = now

\* the store is as at the call's entry for every token but the call's own
OthersUnchanged ==
    /\ DOMAIN sessions \ {frame.tok} = DOMAIN frame.pre_s \ {frame.tok}
    /\ DOMAIN last_activity \ {frame.tok} = DOMAIN frame.pre_l \ {frame.tok}
    /\ \A u \in DOMAIN frame.pre_s \ {frame.tok} : sessions[u] = frame.pre_s[u]
    /\ \A u \in DOMAIN frame.pre_l \ {frame.tok} : last_activity[u] = frame.pre_l[u]

\* C6: update_session on a tracked token returns True and merges the patch:
\* every key of the patch has the patch's value, every other key of the old bag
\* keeps its value, no other key appears, the token's last_active is refreshed,
\* and no other token's bag or last_active changes.
C6_UpdateMerges ==
    Returned("update")
        => /\ frame.ret = "True" <=> Has(frame.pre_s, frame.tok)
           /\ frame.ret = "True" =>
                LET old == frame.pre_s[frame.tok]
                    new == sessions[frame.tok]
                IN /\ DOMAIN new = DOMAIN old \cup DOMAIN frame.data
                   /\ \A k \in DOMAIN frame.data : new[k] = frame.data[k]
                   /\ \A k \in DOMAIN old \ DOMAIN frame.data : new[k] = old[k]
                   /\ last_activity[frame.tok] = now
                   /\ OthersUnchanged

\* an update_session has overwritten one key and kept another, later than the
\* session's last use, beside another session
C6_Witness ==
    /\ Returned("update")
    /\ frame.ret = "True"
    /\ \E k \in DOMAIN frame.data :
         k \in DOMAIN frame.pre_s[frame.tok] /\ frame.pre_s[frame.tok][k] # frame.data[k]
    /\ DOMAIN frame.pre_s[frame.tok] \ DOMAIN frame.data # {}
    /\ frame.pre_l[frame.tok] < now
    /\ DOMAIN sessions # {frame.tok}

\* C7: delete_session returns True and removes the token's entry when the token
\* is tracked, returns False and leaves the store unchanged when it is not (so
\* on a token already deleted), and touches no other token's entry.
C7_DeleteSession ==
    Returned("delete")
        => /\ IF Has(frame.pre_s, frame.tok)
              THEN /\ frame.ret = "True"
                   /\ sessions = Del(frame.pre_s, frame.tok)
                   /\ last_activity = Del(frame.pre_l, frame.tok)
              ELSE /\ frame.ret = "False"
                   /\ StoreUnchanged
           /\ frame.tok \in frame.pre_d => frame.ret = "False"
           /\ OthersUnchanged

\* a second delete_session of a token has returned False beside a live session
C7_Witness ==
    /\ Returned("delete")
    /\ frame.tok \in frame.pre_d
    /\ frame.ret = "False"
    /\ sessions # EmptyBag

\* C8: the methods of the store and a sweep of the reaper are atomic for one
\* another: whatever call or sweep gets the loop finds every token in both dicts
\* or in neither, and a get_session returns None or the complete bag the token
\* had when the call was entered.
C8_Atomic ==
    /\ frame.who # "none" => DOMAIN frame.pre_s = DOMAIN frame.pre_l
    /\ Returned("get") =>
         \/ frame.ret = "None"
         \/ /\ frame.ret = "Bag"
            /\ Has(frame.pre_s, frame.tok)
            /\ frame.bag = frame.pre_s[frame.tok]
            /\ Has(sessions, frame.tok) /\ Has(last_activity, frame.tok)

\* a delete_session is half done: the token has left sessions and is still in
\* last_activity, while the call holds the loop
C8_Witness ==
    /\ frame.op = "delete"
    /\ frame.pc = "L110"
    /\ ~Has(sessions, frame.tok)
    /\ Has(last_activity, frame.tok)

\* C9: once the application has shut down, the reaper is stopped: it does not
\* wake from its sleep for another sweep.
C9_ReaperStopsAtShutdown ==
    [][app = "shutdown" => ~(reaper = "sleep" /\ reaper' = "run")]_vars

\* C10: get_session and the sweep use one expiry predicate, now - last_active >
\* timeout: at every instant at which either may run, get_session takes a
\* tracked session for expired exactly if a sweep would delete it, and a session
\* idle for exactly the timeout is expired for neither.
C10_SameExpiryPredicate ==
    frame = Idle =>
        \A t \in DOMAIN sessions :
            /\ _is_expired(last_activity, t, now)
                 <=> t \in expired_sessions(last_activity, now)
            /\ now - last_activity[t] = Timeout
                 => /\ ~_is_expired(last_activity, t, now)
                    /\ t \notin expired_sessions(last_activity, now)

\* the loop is free, one session is idle for exactly the timeout and another
\* for longer
C10_Witness ==
    /\ frame = Idle
    /\ \E t \in DOMAIN sessions : now - last_activity[t] = Timeout
    /\ \E t \in DOMAIN sessions : now - last_activity[t] > Timeout

\* ----------------------------------------------------------------------
\* calculate_summary
\* ----------------------------------------------------------------------
Summarized == output.kind = "summary"

\* the records of the list that carry a value of the metric
PresentIn(acts, metric) == {i \in 1 .. Len(acts) : acts[i][metric] # {}}

ValueOf(acts, i, metric) == CHOOSE v \in acts[i][metric] : TRUE

RECURSIVE SumOver(_, _, _)
SumOver(acts, S, metric) ==
    IF S = {} THEN 0
    ELSE LET i == CHOOSE j \in S : TRUE
         IN ValueOf(acts, i, metric) + SumOver(acts, S \ {i}, metric)

\* C11: the summary of the empty list has count 0, duration 0, distance 0 and
\* every optional aggregate (avg_*, max_*, total_ascent, total_calories) null.
C11_EmptySummary ==
    (Summarized /\ activities = << >>) =>
        /\ output.value.total_activities = 0
        /\ output.value.total_duration = 0
        /\ output.value.total_distance = 0
        /\ \A f \in AvgMetrics \cup MaxMetrics \cup {"total_ascent", "total_calories"} :
              output.value[f] = {}

C11_Witness == Summarized /\ activities = << >> /\ output.value.total_calories = {}

\* C12: for a non-empty list, each avg_* aggregate is the sum of the present
\* values divided by their number k (not by N), each max_* aggregate is the
\* greatest present value, total_ascent is the sum of the present values, and
\* each of them is null when no record carries the metric.
C12_PresentValuesOnly ==
    (Summarized /\ activities # << >>) =>
        /\ \A f \in AvgMetrics :
              LET P == PresentIn(activities, f)
              IN IF P = {} THEN output.value[f] = {}
                 ELSE \E r \in output.value[f] :
                        /\ r.den = Cardinality(P)
                        /\ r.num = SumOver(activities, P, f)
        /\ \A f \in MaxMetrics :
              LET P == PresentIn(activities, f)
              IN IF P = {} THEN output.value[f] = {}
                 ELSE \E v \in output.value[f] :
                        /\ \E i \in P : v = ValueOf(activities, i, f)
                        /\ \A i \in P : v >= ValueOf(activities, i, f)
        /\ LET P == PresentIn(activities, "total_ascent")
           IN IF P = {} THEN output.value.total_ascent = {}
              ELSE output.value.total_ascent = {SumOver(activities, P, "total_ascent")}

\* two records, the avg_* metrics present in exactly one of them
C12_Witness ==
    /\ Summarized
    /\ Len(activities) = 2
    /\ Cardinality(PresentIn(activities, "avg_power")) = 1
    /\ \E r \in output.value.avg_power : r.den = 1 /\ r.num = 2

\* C13: for a non-empty list, total_calories is the sum of the present calorie
\* values and is 0, not null, when there is none; total_ascent and every avg_*
\* and max_* aggregate is null when no record carries its metric.
C13_CaloriesDefaultZero ==
    (Summarized /\ activities # << >>) =>
        /\ output.value.total_calories =
              {SumOver(activities, PresentIn(activities, "calories"), "calories")}
        /\ PresentIn(activities, "calories") = {} => output.value.total_calories = {0}
        /\ \A f \in AvgMetrics \cup MaxMetrics \cup {"total_ascent"} :
              PresentIn(activities, f) = {} => output.value[f] = {}

\* a non-empty list in which no record has calories or total_ascent
C13_Witness ==
    /\ Summarized
    /\ activities # << >>
    /\ PresentIn(activities, "calories") = {}
    /\ PresentIn(activities, "total_ascent") = {}
    /\ output.value.total_calories = {0}
    /\ output.value.total_ascent = {}

\* ----------------------------------------------------------------------
\* filter_activities
\* ----------------------------------------------------------------------
Filtered == output.kind = "list" /\ request.fn = "filter_activities"

\* the record satisfies every predicate the request supplies; a supplied type
\* set, empty or not, is a predicate
Satisfies(a, req) ==
    /\ \A types \in req.activity_types : a.activity_type \in types
    /\ \A d \in req.start_date : a.start_time >= d
    /\ \A d \in req.end_date : a.start_time <= d

\* C14: the result is exactly the subsequence, in input order, of the records
\* that satisfy every supplied predicate, with inclusive date bounds; the input
\* list is not changed; with no predicate the result is the input.
C14_PureFilter ==
    Filtered =>
        /\ LET Wanted(a) == Satisfies(a, request)
           IN output.value = SelectSeq(activities, Wanted)
        /\ activities = request.given
        /\ (request.activity_types = {} /\ request.start_date = {} /\ request.end_date = {})
              => output.value = activities

\* The same statement restricted to the calls whose type argument is omitted or
\* a non-empty set: dates inclusive, order kept, input untouched.
C14_PureFilterOfTypedCalls ==
    (Filtered /\ request.activity_types # {{}}) =>
        /\ LET Wanted(a) == Satisfies(a, request)
           IN output.value = SelectSeq(activities, Wanted)
        /\ activities = request.given

\* a record exactly on each bound is kept, one outside is dropped
C14_OnTheBound ==
    /\ Filtered
    /\ request.activity_types # {{}}
    /\ Len(activities) = 2
    /\ Len(output.value) = 1
    /\ {output.value[1].start_time} = request.start_date
    /\ request.start_date = request.end_date

\* C15: when a type set is supplied, the empty one included, every returned
\* record has its activity_type in that set.
C15_TypeMembership ==
    Filtered =>
        \A types \in request.activity_types :
            \A i \in 1 .. Len(output.value) : output.value[i].activity_type \in types

\* with a non-empty set supplied, the membership holds
C15_NonEmptyTypeSet ==
    Filtered =>
        \A types \in request.activity_types \ {{}} :
            \A i \in 1 .. Len(output.value) : output.value[i].activity_type \in types

\* ----------------------------------------------------------------------
\* The export view
\* ----------------------------------------------------------------------
Exported == output.kind \in {"csv", "pdf"}

ExportRequested == request.fn \in {"csv", "pdf"}

TextualKeys == {"start_time", "activity_name", "activity_type"}

\* the value a record has in a column, read from the record: TRUE when it is
\* null, resp. when it is zero (a text or a date is neither)
IsNullIn(a, key) ==
    key \notin TextualKeys \cup {"duration", "distance"} /\ a[key] = {}

IsZeroIn(a, key) ==
    IF key \in TextualKeys THEN FALSE
    ELSE IF key \in {"duration", "distance"} THEN a[key] = 0
    ELSE a[key] = {0}

AllNull(rows, key) == \A i \in DOMAIN rows : IsNullIn(rows[i], key)
AllZero(rows, key) == \A i \in DOMAIN rows : IsZeroIn(rows[i], key)
SomeNonZero(rows, key) ==
    \E i \in DOMAIN rows : ~IsNullIn(rows[i], key) /\ ~IsZeroIn(rows[i], key)

ColumnSet(cols) == {cols[i] : i \in DOMAIN cols}

\* the known keys a request asks for: all of them when `columns` is omitted
\* or the empty string
RequestedKeys(req) ==
    IF req.columns = {} \/ req.columns = {<<"">>} THEN KnownKeys
    ELSE LET items == CHOOSE q \in req.columns : TRUE
         IN {strip(items[i]) : i \in DOMAIN items} \cap KnownKeys

\* C16: no exported column is all null or all zero across the exported records,
\* requested or not; and every requested known column with a non-null,
\* non-zero value is exported.
C16_NoEmptyColumn ==
    Exported =>
        /\ \A key \in ColumnSet(output.columns) :
              ~AllNull(output.rows, key) /\ ~AllZero(output.rows, key)
        /\ \A key \in RequestedKeys(request) :
              SomeNonZero(output.rows, key) => key \in ColumnSet(output.columns)

\* the second half alone, and the first half for every column but Duration
C16_ExceptDuration ==
    Exported =>
        /\ \A key \in ColumnSet(output.columns) \ {"duration"} :
              ~AllNull(output.rows, key) /\ ~AllZero(output.rows, key)
        /\ \A key \in RequestedKeys(request) :
              SomeNonZero(output.rows, key) => key \in ColumnSet(output.columns)

\* the position of a key in the master order
Pos(key) == CHOOSE i \in DOMAIN column_keys : column_keys[i] = key

\* C17: the exported columns are in the master order of the column table
\* whatever the order and the duplicates of the request; a requested key that
\* is not in the table is ignored and causes no error; an omitted request
\* selects the whole master order.
C17_MasterOrder ==
    /\ Exported =>
          /\ \A i, j \in DOMAIN output.columns :
                i < j => Pos(output.columns[i]) < Pos(output.columns[j])
          /\ ColumnSet(output.columns) \subseteq RequestedKeys(request)
          /\ request.columns = {} =>
                \A key \in KnownKeys :
                    SomeNonZero(output.rows, key) => key \in ColumnSet(output.columns)
    /\ (ExportRequested /\ output.kind = "error") =>
          \/ output.detail # "No data to export with selected columns"
          \/ \A key \in RequestedKeys(request) : ~SomeNonZero(activities, key)

\* requested in the reverse of the master order, exported in the master order
C17_Witness ==
    /\ Exported
    /\ request.columns = {<<"max_elevation", "start_time">>}
    /\ output.columns = <<"start_time", "max_elevation">>

\* an item that is not a key of the table, next to a known key with data
C17_UnknownKeyIgnored ==
    /\ Exported
    /\ request.columns = {<<"", " distance">>}
    /\ output.columns = <<"distance">>

FirstTextual(cols, i) ==
    /\ cols[i] \in TextualKeys
    /\ \A j \in 1 .. (i - 1) : cols[j] \notin TextualKeys

\* C18: in the totals row "TOTAL" is in the first textual column (Date,
\* Activity Name, Type) of the exported columns, every other textual column is
\* blank, and a numeric column carries its aggregate, never "TOTAL", also when
\* the exported columns start with a numeric column or have no textual one.
C18_TotalLabel ==
    output.kind = "csv" =>
        \A i \in DOMAIN output.columns :
            IF output.columns[i] \in TextualKeys
            THEN output.totals[i] =
                    (IF FirstTextual(output.columns, i) THEN Str("TOTAL") ELSE Str(""))
            ELSE output.totals[i].kind \in {"num", "clock"}

\* when the first exported column is textual the label is where the claim
\* puts it and no numeric column carries it
C18_TextualFirst ==
    (output.kind = "csv" /\ output.columns[1] \in TextualKeys) =>
        \A i \in DOMAIN output.columns :
            IF output.columns[i] \in TextualKeys
            THEN output.totals[i] =
                    (IF FirstTextual(output.columns, i) THEN Str("TOTAL") ELSE Str(""))
            ELSE output.totals[i] # Str("TOTAL")

MaxKeys == {"max_speed", "max_power", "max_hr", "max_elevation", "max_cadence"}
AvgKeys == {"avg_speed", "avg_power", "avg_hr", "avg_cadence"}
SpeedKeys == {"avg_speed", "max_speed"}

Abs(x) == IF x < 0 THEN -x ELSE x

\* the cell is the number num/den rounded to 1 decimal (speed) or to the
\* nearest integer (other), written with that many decimals
IsRounded(cell, num, den, key) ==
    /\ cell.kind = "num"
    /\ cell.den = (IF key \in SpeedKeys THEN 10 ELSE 1)
    /\ 2 * Abs(cell.num * den - cell.den * num) <= den

\* the greatest present value of the column, in the unit of the export
\* (km/h = 18/5 m/s), as a fraction
MaxOf(rows, key) ==
    LET P == PresentIn(rows, key)
        v == CHOOSE x \in {ValueOf(rows, i, key) : i \in P} :
                \A i \in P : x >= ValueOf(rows, i, key)
    IN IF key \in SpeedKeys THEN <<18 * v, 5>> ELSE <<v, 1>>

MeanOf(rows, key) ==
    LET P == PresentIn(rows, key)
        sum == SumOver(rows, P, key)
    IN IF key \in SpeedKeys THEN <<18 * sum, 5 * Cardinality(P)>>
       ELSE <<sum, Cardinality(P)>>

\* C19: the totals-row value of a max-labelled column is the maximum of the
\* column's present values and that of an avg-labelled column is their mean,
\* rounded to 1 decimal for a speed column and to the nearest integer for any
\* other; it is blank only when the column has no present value.
C19_MaxAvgTotals ==
    output.kind = "csv" =>
        \A i \in DOMAIN output.columns :
            LET key == output.columns[i]
                expected == IF key \in MaxKeys THEN MaxOf(output.rows, key)
                            ELSE MeanOf(output.rows, key)
            IN key \in MaxKeys \cup AvgKeys =>
                  IF PresentIn(output.rows, key) = {} THEN output.totals[i] = Str("")
                  ELSE IsRounded(output.totals[i], expected[1], expected[2], key)

\* the same for the columns that are not first and whose aggregate is not 0
C19_NonZeroNotFirst ==
    output.kind = "csv" =>
        \A i \in DOMAIN output.columns \ {1} :
            LET key == output.columns[i]
                expected == IF key \in MaxKeys THEN MaxOf(output.rows, key)
                            ELSE MeanOf(output.rows, key)
            IN (key \in MaxKeys \cup AvgKeys /\ expected[1] # 0) =>
                  IsRounded(output.totals[i], expected[1], expected[2], key)

\* a blank total under a max column that has present values
C19_BlankMaximum ==
    /\ output.kind = "csv"
    /\ \E i \in DOMAIN output.columns \ {1} :
          /\ output.columns[i] = "max_elevation"
          /\ PresentIn(output.rows, "max_elevation") # {}
          /\ output.totals[i] = Str("")

\* ----------------------------------------------------------------------
\* The reaper and abandoned sessions
\* ----------------------------------------------------------------------
\* the session is tracked and its timeout ends before the clock of the model
\* stops at MaxTime
WillExpire(t) ==
    /\ Has(sessions, t)
    /\ Has(last_activity, t)
    /\ last_activity[t] + Timeout < MaxTime

\* a get_session or an update_session on the token is running
Touching(t) == frame.who = "req" /\ frame.op \in {"get", "update"} /\ frame.tok = t

Removed(t) == ~Has(sessions, t) /\ ~Has(last_activity, t)

\* C20: with the reaper scheduled fairly, a tracked session whose timeout ends
\* within the horizon MaxTime leads to its removal from both dicts, unless a
\* get or an update on its token comes first: an abandoned session does not
\* stay in the store.
C20_AbandonedRemoved == \A t \in Tokens : WillExpire(t) ~> (Removed(t) \/ Touching(t))

\* the reaper has removed the one session whose timeout had ended and has
\* left the other, still live, in the store
C20_Witness ==
    /\ frame.who = "reaper"
    /\ frame.pc = "swept"
    /\ \E t \in Tokens : ExpiredBeforeSweep = {t} /\ Removed(t)
    /\ Cardinality(DOMAIN sessions) = 1

\* ----------------------------------------------------------------------
\* The two dicts of the store
\* ----------------------------------------------------------------------
\* the statement the running call is about to execute indexes a dict with the
\* token of the call, and the token is a key of that dict
KeyFound ==
    /\ At("get", "L77") => Has(sessions, frame.tok)
    /\ At("update", "L94") => Has(sessions, frame.tok)
    /\ InDelete("L109") => Has(sessions, frame.tok)
    /\ InDelete("L110") => Has(last_activity, frame.tok)

\* C21: sessions and last_activity have the same keys in every state but the
\* two inside create_session and delete_session where one dict is written and
\* the other not yet; every statement that indexes a dict finds its key, so no
\* method and no sweep raises KeyError, and a token that is not found shows
\* in the return value: None for get_session, False for update_session and
\* delete_session.
C21_SameKeys ==
    /\ frame.pc \notin {"L55", "L110"} => DOMAIN sessions = DOMAIN last_activity
    /\ KeyFound
    /\ (Returned("get") /\ ~Has(frame.pre_s, frame.tok)) => frame.ret = "None"
    /\ (Returned("update") /\ ~Has(frame.pre_s, frame.tok)) => frame.ret = "False"
    /\ (Returned("delete") /\ ~Has(frame.pre_s, frame.tok)) => frame.ret = "False"

\* update_session has answered False for a token that is in neither dict, while
\* the other token is in both
C21_Witness ==
    /\ Returned("update")
    /\ frame.ret = "False"
    /\ ~Has(sessions, frame.tok) /\ ~Has(last_activity, frame.tok)
    /\ DOMAIN sessions = DOMAIN last_activity
    /\ DOMAIN sessions # {}

\* ----------------------------------------------------------------------
\* Expiry and live sessions
\* ----------------------------------------------------------------------
\* the session is tracked and not idle for more than the timeout
Live(t) ==
    /\ Has(sessions, t)
    /\ Has(last_activity, t)
    /\ now - last_activity[t] <= Timeout

\* C22: a step that takes a live session (now - last_active <= timeout) out of
\* the store is a step of an explicit delete_session call: the sweep of the
\* reaper and the lazy check of get_session remove only sessions idle for more
\* than the timeout at that moment, so a session that is read or written at
\* least every timeout stays until it is deleted.
C22_ExpiryKeepsLive ==
    [][\A t \in Tokens : (Live(t) /\ ~Has(sessions', t)) => frame.op = "delete"]_vars

\* a sweep has met a session idle for exactly the timeout and has left it
C22_Witness ==
    /\ At("sweep", "swept")
    /\ \E t \in Tokens :
          /\ Has(frame.pre_l, t)
          /\ frame.t0 - frame.pre_l[t] = Timeout
          /\ Live(t)
          /\ sessions[t] = frame.pre_s[t]

\* ----------------------------------------------------------------------
\* The handlers: logout and failed login
\* ----------------------------------------------------------------------
\* C23: once a logout has deleted a session, the token is in neither dict for
\* ever after: every later get_session on it returns None, and the
\* update_session of a fetch_activities that was waiting for Garmin during the
\* logout returns False and creates nothing.
C23_LogoutIsFinal ==
    /\ \A t \in handlers.loggedout : Removed(t)
    /\ (Returned("get") /\ frame.tok \in handlers.loggedout) => frame.ret = "None"
    /\ (Returned("update") /\ frame.tok \in handlers.loggedout) =>
          frame.ret = "False" /\ StoreUnchanged

\* a fetch_activities that resumed after the logout of its token has called
\* update_session, which answered False
C23_Witness ==
    /\ Running("fetch", "L77")
    /\ Returned("update")
    /\ frame.tok \in handlers.loggedout
    /\ frame.ret = "False"
    /\ Removed(frame.tok)

\* C24: a failed login leaves no session: the token that login created is in
\* neither dict once delete_session has returned on the failure path and for
\* ever after, the entries of the other tokens are as they were, and the count
\* of tracked entries is that of the other tokens, whatever ran while the
\* login was waiting for Garmin.
C24_FailedLoginLeavesNothing ==
    /\ \A t \in handlers.failed : Removed(t)
    /\ (Running("login", "L32") /\ Returned("create")) =>
          DOMAIN sessions = DOMAIN frame.pre_s \cup {frame.tok} /\ OthersUnchanged
    /\ (Running("login", "L72") /\ Returned("delete")) =>
          /\ Removed(frame.tok)
          /\ OthersUnchanged
          /\ get_active_session_count = Cardinality(DOMAIN frame.pre_s \ {frame.tok})

\* a failed login has deleted its session while another session is tracked
C24_Witness ==
    /\ Running("login", "L72")
    /\ Returned("delete")
    /\ frame.ret = "True"
    /\ Removed(frame.tok)
    /\ get_active_session_count = 1
====
